---- MODULE Spec2Model ----
(***************************************************************************)
(* Intergalactic tic-tac-toe: the rules engine of src/game_logic.py        *)
(* (class GameLogic), the JSON snapshot round trip of                      *)
(* src/game_persistence.py, and a caller that clicks cells the way         *)
(* src/ui.py does (any cell, no pre-filtering by get_valid_moves).         *)
(*                                                                         *)
(* A game is a record g with one field per attribute of GameLogic.  The    *)
(* pure operators make_move(g, row, col), get_valid_moves(g), reset_game   *)
(* and load_game(save_game(g)) are translated from the code; the actions   *)
(* apply them to the current game and record the call and what it          *)
(* returned.                                                               *)
(***************************************************************************)
EXTENDS Integers, Sequences, FiniteSets

\* ---------------------------------------------------------------- constants

\* side of the board, game_logic.py:21 and the range check of make_move
BoardSize == 27
\* side of the grid of 3x3 blocks, game_logic.py:24
MicroGrid == 9
\* side of a block, of the grid of 9x9 blocks and of every line check
BlockSize == 3

Idx27 == 0 .. (BoardSize - 1)
Idx9 == 0 .. (MicroGrid - 1)
Idx3 == 0 .. (BlockSize - 1)

\* Python's None for the two selectors; a set selector is <<tag, r, c>> with
\* tag "tuple" (built by make_move) or "list" (read back from JSON).
None == << >>

tuple(r, c) == <<"tuple", r, c>>

\* Python's `sel == (r, c)`: a list never equals a tuple.
PyEqTuple(sel, r, c) == sel = tuple(r, c)

\* Python's `a, b = sel`: unpacking works for tuples and lists alike.
SelRow(sel) == sel[2]
SelCol(sel) == sel[3]

\* ------------------------------------------------------------------- state

VARIABLES
    board,              \* 27x27 marks: "", "X", "O"
    blocks_3x3,         \* 9x9 winners of the 3x3 blocks
    blocks_9x9,         \* 3x3 winners of the 9x9 blocks
    blocks_state_3x3,   \* per 3x3 block, its 3x3 cells
    blocks_state_9x9,   \* per 9x9 block, the winners of its 3x3 blocks
    current_player,     \* "X" or "O"
    active_9x9_block,   \* None or a selector
    active_3x3_block,   \* None or a selector
    status,             \* "playing", "X_wins", "O_wins"
    last,               \* the last call: [op, row, col, ret]
    line,               \* the playbook line the caller follows
    pos,                \* scripted calls issued so far
    off                 \* accepted off-script moves so far

gameVars == <<board, blocks_3x3, blocks_9x9, blocks_state_3x3, blocks_state_9x9,
              current_player, active_9x9_block, active_3x3_block, status>>

vars == <<board, blocks_3x3, blocks_9x9, blocks_state_3x3, blocks_state_9x9,
          current_player, active_9x9_block, active_3x3_block, status,
          last, line, pos, off>>

\* the current game as one value
Game ==
    [board |-> board, blocks_3x3 |-> blocks_3x3, blocks_9x9 |-> blocks_9x9,
     blocks_state_3x3 |-> blocks_state_3x3, blocks_state_9x9 |-> blocks_state_9x9,
     current_player |-> current_player, active_9x9_block |-> active_9x9_block,
     active_3x3_block |-> active_3x3_block, status |-> status]

\* GameLogic.__init__
NewGame ==
    [board |-> [r \in Idx27 |-> [c \in Idx27 |-> ""]],
     blocks_3x3 |-> [r \in Idx9 |-> [c \in Idx9 |-> ""]],
     blocks_9x9 |-> [r \in Idx3 |-> [c \in Idx3 |-> ""]],
     blocks_state_3x3 |->
         [i \in Idx9 |-> [j \in Idx9 |-> [r \in Idx3 |-> [c \in Idx3 |-> ""]]]],
     blocks_state_9x9 |->
         [i \in Idx3 |-> [j \in Idx3 |-> [r \in Idx3 |-> [c \in Idx3 |-> ""]]]],
     current_player |-> "X",
     active_9x9_block |-> None,
     active_3x3_block |-> None,
     status |-> "playing"]

\* ------------------------------------------------------------ win checks

\* the rows, columns and diagonals scanned by each of the three checks
LineWin(grid, player) ==
    \/ \E r \in Idx3 : \A c \in Idx3 : grid[r][c] = player
    \/ \E c \in Idx3 : \A r \in Idx3 : grid[r][c] = player
    \/ \A i \in Idx3 : grid[i][i] = player
    \/ \A i \in Idx3 : grid[i][2 - i] = player

\* lines 255-259 left out: the rows of the 3x3 block are not scanned
check_block_3x3_winNoRows(g, block_row, block_col) ==
    \/ \E c \in Idx3 : \A r \in Idx3 :
           g.blocks_state_3x3[block_row][block_col][r][c] = g.current_player
    \/ \A i \in Idx3 :
           g.blocks_state_3x3[block_row][block_col][i][i] = g.current_player
    \/ \A i \in Idx3 :
           g.blocks_state_3x3[block_row][block_col][i][2 - i] = g.current_player

check_block_3x3_win(g, block_row, block_col) ==
    LineWin(g.blocks_state_3x3[block_row][block_col], g.current_player)

\* a 9x9 block counted as won with any one of its 3x3 blocks
check_block_9x9_winAnyBlock(g, block_row, block_col) ==
    \E r \in Idx3, c \in Idx3 :
        g.blocks_state_9x9[block_row][block_col][r][c] = g.current_player

check_block_9x9_win(g, block_row, block_col) ==
    LineWin(g.blocks_state_9x9[block_row][block_col], g.current_player)

\* lines 299-302 left out: the rows of blocks_9x9 are not scanned
check_game_winNoRows(g) ==
    \/ \E c \in Idx3 : \A r \in Idx3 : g.blocks_9x9[r][c] = g.current_player
    \/ \A i \in Idx3 : g.blocks_9x9[i][i] = g.current_player
    \/ \A i \in Idx3 : g.blocks_9x9[i][2 - i] = g.current_player

check_game_win(g) ==
    LineWin(g.blocks_9x9, g.current_player)

\* ------------------------------------------------------------- make_move

\* make_move line 124
OutOfRange(row, col) ==
    row < 0 \/ row >= BoardSize \/ col < 0 \/ col >= BoardSize

\* make_move lines 143-146: a set 9x9 selector must be the move's 9x9 block
Wrong9x9(g, row, col) ==
    /\ g.active_9x9_block # None
    /\ \/ row \div 9 # SelRow(g.active_9x9_block)
       \/ col \div 9 # SelCol(g.active_9x9_block)

\* make_move lines 149-158: the 3x3 selector binds only while the move's 9x9
\* block has no winner
Wrong3x3(g, row, col) ==
    /\ row \div 9 < 3 /\ col \div 9 < 3
    /\ g.blocks_9x9[row \div 9][col \div 9] = ""
    /\ g.active_3x3_block # None
    /\ \/ (row \div 3) % 3 # SelRow(g.active_3x3_block)
       \/ (col \div 3) % 3 # SelCol(g.active_3x3_block)

\* the check of line 161 left out: a won 3x3 block stays open
BlockAlreadyWonNever(g, row, col) == FALSE

\* make_move line 161
BlockAlreadyWon(g, row, col) ==
    g.blocks_3x3[row \div 3][col \div 3] # ""

\* the checks of lines 121-162 without the occupied-cell check of line 127
RejectedIgnoringOccupied(g, row, col) ==
    \/ g.status # "playing"
    \/ OutOfRange(row, col)
    \/ Wrong9x9(g, row, col)
    \/ Wrong3x3(g, row, col)
    \/ BlockAlreadyWon(g, row, col)

\* the checks of lines 124-162 without the status check of line 121
RejectedIgnoringStatus(g, row, col) ==
    \/ OutOfRange(row, col)
    \/ g.board[row][col] # ""
    \/ Wrong9x9(g, row, col)
    \/ Wrong3x3(g, row, col)
    \/ BlockAlreadyWon(g, row, col)

\* the six early returns of make_move, lines 121-162, in the code's order
Rejected(g, row, col) ==
    \/ g.status # "playing"
    \/ OutOfRange(row, col)
    \/ g.board[row][col] # ""
    \/ Wrong9x9(g, row, col)
    \/ Wrong3x3(g, row, col)
    \/ BlockAlreadyWon(g, row, col)

\* lines 168-170 with the local row and column swapped
PlaceMarkCacheTransposed(g, row, col) ==
    [g EXCEPT !.board[row][col] = g.current_player,
              !.blocks_state_3x3[row \div 3][col \div 3][col % 3][row % 3] =
                  g.current_player]

\* lines 165-170 writing "X" whoever moves
PlaceMarkAlwaysX(g, row, col) ==
    [g EXCEPT !.board[row][col] = "X",
              !.blocks_state_3x3[row \div 3][col \div 3][row % 3][col % 3] = "X"]

\* make_move lines 165-170
PlaceMark(g, row, col) ==
    [g EXCEPT !.board[row][col] = g.current_player,
              !.blocks_state_3x3[row \div 3][col \div 3][row % 3][col % 3] =
                  g.current_player]

\* line 178 with the block's local position inside its 9x9 block instead of
\* its global one
RecordBlock3x3AtLocalIndex(g, row, col) ==
    [g EXCEPT !.blocks_3x3[(row \div 3) % 3][(col \div 3) % 3] = g.current_player,
              !.blocks_state_9x9[row \div 9][col \div 9][(row \div 3) % 3][(col \div 3) % 3] =
                  g.current_player]

\* lines 182-184 left out: the winner goes to blocks_3x3 only
RecordBlock3x3NoCache(g, row, col) ==
    [g EXCEPT !.blocks_3x3[row \div 3][col \div 3] = g.current_player]

\* lines 178-179 recording the block for the player who is not moving
RecordBlock3x3ForOpponent(g, row, col) ==
    [g EXCEPT !.blocks_3x3[row \div 3][col \div 3] =
                  IF g.current_player = "X" THEN "O" ELSE "X",
              !.blocks_state_9x9[row \div 9][col \div 9][(row \div 3) % 3][(col \div 3) % 3] =
                  IF g.current_player = "X" THEN "O" ELSE "X"]

\* make_move lines 177-184
RecordBlock3x3(g, row, col) ==
    [g EXCEPT !.blocks_3x3[row \div 3][col \div 3] = g.current_player,
              !.blocks_state_9x9[row \div 9][col \div 9][(row \div 3) % 3][(col \div 3) % 3] =
                  g.current_player]

\* line 188 with the indices of the redirect target instead of the move's own
\* 9x9 block
RecordBlock9x9AtTarget(g, row, col) ==
    [g EXCEPT !.blocks_9x9[(row \div 3) % 3][(col \div 3) % 3] = g.current_player]

\* make_move line 188
RecordBlock9x9(g, row, col) ==
    [g EXCEPT !.blocks_9x9[row \div 9][col \div 9] = g.current_player]

\* make_move line 192: f"{self.current_player}_wins"
WinStatus(player) == IF player = "X" THEN "X_wins" ELSE "O_wins"

\* the target taken without looking at its winner
Target3x3NoWonCheck(g, b9r, b9c, row, col) == tuple(row % 3, col % 3)

\* make_move lines 213-221 and 231-238: the 3x3 selector inside 9x9 block
\* (b9r, b9c) is the cell's local position unless that 3x3 block is won
Target3x3(g, b9r, b9c, row, col) ==
    IF g.blocks_3x3[b9r * 3 + (row % 3)][b9c * 3 + (col % 3)] # ""
    THEN None
    ELSE tuple(row % 3, col % 3)

\* line 207 left out: the fallback clears only the 9x9 selector
RedirectAfterWinKeepMicro(g, row, col) ==
    IF g.blocks_9x9[(row \div 3) % 3][(col \div 3) % 3] # ""
    THEN [g EXCEPT !.active_9x9_block = None]
    ELSE [g EXCEPT !.active_9x9_block = tuple((row \div 3) % 3, (col \div 3) % 3),
                   !.active_3x3_block =
                       Target3x3(g, (row \div 3) % 3, (col \div 3) % 3, row, col)]

\* lines 200-201 replaced by the level-1 rule: the redirect stays in the
\* move's own 9x9 block
RedirectAfterWinOwnMacro(g, row, col) ==
    IF g.blocks_9x9[(row \div 3) % 3][(col \div 3) % 3] # ""
    THEN [g EXCEPT !.active_9x9_block = None, !.active_3x3_block = None]
    ELSE [g EXCEPT !.active_9x9_block = tuple(row \div 9, col \div 9),
                   !.active_3x3_block =
                       Target3x3(g, row \div 9, col \div 9, row, col)]

\* lines 204-207 left out: the redirect ignores the winner of the next 9x9 block
RedirectAfterWinNoFallback(g, row, col) ==
    [g EXCEPT !.active_9x9_block = tuple((row \div 3) % 3, (col \div 3) % 3),
              !.active_3x3_block =
                  Target3x3(g, (row \div 3) % 3, (col \div 3) % 3, row, col)]

\* make_move lines 197-221: a 3x3 block was won
RedirectAfterWin(g, row, col) ==
    LET next_9x9_row == (row \div 3) % 3
        next_9x9_col == (col \div 3) % 3
    IN  IF g.blocks_9x9[next_9x9_row][next_9x9_col] # ""
        THEN [g EXCEPT !.active_9x9_block = None, !.active_3x3_block = None]
        ELSE [g EXCEPT !.active_9x9_block = tuple(next_9x9_row, next_9x9_col),
                       !.active_3x3_block =
                           Target3x3(g, next_9x9_row, next_9x9_col, row, col)]

\* make_move lines 222-238: no 3x3 block was won
MirrorNoWin(g, row, col) ==
    [g EXCEPT !.active_9x9_block = tuple(row \div 9, col \div 9),
              !.active_3x3_block = Target3x3(g, row \div 9, col \div 9, row, col)]

\* line 241 left out: the mover keeps the turn
SwitchPlayerNever(g) == g

\* line 241 with both arms "O"
SwitchPlayerAlwaysO(g) == [g EXCEPT !.current_player = "O"]

\* make_move line 241
SwitchPlayer(g) ==
    [g EXCEPT !.current_player = IF g.current_player = "X" THEN "O" ELSE "X"]

\* the return of line 193 left out: the winning move goes on to the redirect
\* and the switch of player
AfterMarkNoReturnOnGameWin(g, row, col) ==
    IF check_block_3x3_win(g, row \div 3, col \div 3)
    THEN LET g3 == RecordBlock3x3(g, row, col)
         IN  IF check_block_9x9_win(g3, row \div 9, col \div 9)
             THEN LET g9 == RecordBlock9x9(g3, row, col)
                  IN  IF check_game_win(g9)
                      THEN SwitchPlayer(RedirectAfterWin(
                               [g9 EXCEPT !.status = WinStatus(g9.current_player)],
                               row, col))
                      ELSE SwitchPlayer(RedirectAfterWin(g9, row, col))
             ELSE SwitchPlayer(RedirectAfterWin(g3, row, col))
    ELSE SwitchPlayer(MirrorNoWin(g, row, col))

\* make_move lines 172-243, after the mark is placed
AfterMark(g, row, col) ==
    IF check_block_3x3_win(g, row \div 3, col \div 3)
    THEN LET g3 == RecordBlock3x3(g, row, col)
         IN  IF check_block_9x9_win(g3, row \div 9, col \div 9)
             THEN LET g9 == RecordBlock9x9(g3, row, col)
                  IN  IF check_game_win(g9)
                      THEN [g9 EXCEPT !.status = WinStatus(g9.current_player)]
                      ELSE SwitchPlayer(RedirectAfterWin(g9, row, col))
             ELSE SwitchPlayer(RedirectAfterWin(g3, row, col))
    ELSE SwitchPlayer(MirrorNoWin(g, row, col))

\* a call outside the board refused after passing the turn
make_move_RangeCheckAfterSwitch(g, row, col) ==
    IF Rejected(g, row, col)
    THEN [ret |-> FALSE,
          g |-> IF g.status = "playing" /\ OutOfRange(row, col)
                THEN SwitchPlayer(g)
                ELSE g]
    ELSE [ret |-> TRUE, g |-> AfterMark(PlaceMark(g, row, col), row, col)]

\* the mark placed before the check of line 161 instead of after it
make_move_MarkBeforeCheck(g, row, col) ==
    IF Rejected(g, row, col)
    THEN [ret |-> FALSE,
          g |-> IF /\ g.status = "playing"
                   /\ ~OutOfRange(row, col)
                   /\ g.board[row][col] = ""
                   /\ ~Wrong9x9(g, row, col)
                   /\ ~Wrong3x3(g, row, col)
                THEN PlaceMark(g, row, col)
                ELSE g]
    ELSE [ret |-> TRUE, g |-> AfterMark(PlaceMark(g, row, col), row, col)]

\* GameLogic.make_move: the value returned and the game afterwards
make_move(g, row, col) ==
    IF Rejected(g, row, col)
    THEN [ret |-> FALSE, g |-> g]
    ELSE [ret |-> TRUE, g |-> AfterMark(PlaceMark(g, row, col), row, col)]

\* -------------------------------------------------------- get_valid_moves

\* get_valid_moves lines 68-77: the 9x9 blocks to expand
ActiveBlocks9x9(g) ==
    IF g.active_9x9_block = None
    THEN {<<R, C>> \in Idx3 \X Idx3 : g.blocks_9x9[R][C] = ""}
    ELSE {<<SelRow(g.active_9x9_block), SelCol(g.active_9x9_block)>>}

\* lines 95-98 left out: every 3x3 block of the 9x9 block is expanded
ActiveBlocks3x3NoWinnerFilter(g, R, C) ==
    IF PyEqTuple(g.active_9x9_block, R, C) /\ g.active_3x3_block # None
    THEN {<<SelRow(g.active_3x3_block), SelCol(g.active_3x3_block)>>}
    ELSE Idx3 \X Idx3

\* get_valid_moves lines 82-99: the 3x3 blocks to expand inside 9x9 block (R, C)
ActiveBlocks3x3(g, R, C) ==
    IF PyEqTuple(g.active_9x9_block, R, C) /\ g.active_3x3_block # None
    THEN {<<SelRow(g.active_3x3_block), SelCol(g.active_3x3_block)>>}
    ELSE {<<r, c>> \in Idx3 \X Idx3 : g.blocks_3x3[R * 3 + r][C * 3 + c] = ""}

\* GameLogic.get_valid_moves, as the set of the coordinates in the list it
\* returns (the expanded blocks are disjoint, so the list has no repetition)
get_valid_moves(g) ==
    IF g.status # "playing"
    THEN {}
    ELSE UNION { UNION { {<<row, col>> \in
                            ((R * 3 + b[1]) * 3 .. (R * 3 + b[1]) * 3 + 2) \X
                            ((C * 3 + b[2]) * 3 .. (C * 3 + b[2]) * 3 + 2) :
                            g.board[row][col] = ""}
                         : b \in ActiveBlocks3x3(g, R, C) }
                 : <<R, C>> \in ActiveBlocks9x9(g) }

\* ------------------------------------------------------------ persistence

\* json.dump then json.load of one selector: None <-> null, a tuple is written
\* as an array and an array is read back as a list
JsonRoundTrip(sel) ==
    IF sel = None THEN None ELSE <<"list", sel[2], sel[3]>>

\* GamePersistence.save_game then GamePersistence.load_game on the file just
\* written: every field assigned from the record; strings and nested lists of
\* strings come back equal
SaveThenLoad(g) ==
    [g EXCEPT !.active_9x9_block = JsonRoundTrip(g.active_9x9_block),
              !.active_3x3_block = JsonRoundTrip(g.active_3x3_block)]

\* the keys load_game reads, in the order of lines 81-92
LoadOrder ==
    <<"current_player", "status", "board", "blocks_3x3", "blocks_9x9",
      "blocks_state_3x3", "blocks_state_9x9", "active_9x9_block",
      "active_3x3_block", "player_x_name", "player_o_name">>

\* save_game lines 42-58: the object written to the file; json.dump writes a
\* tuple selector as an array
save_game(g, player_x_name, player_o_name) ==
    [player_x_name |-> player_x_name,
     player_o_name |-> player_o_name,
     current_player |-> g.current_player,
     status |-> g.status,
     board |-> g.board,
     blocks_3x3 |-> g.blocks_3x3,
     blocks_9x9 |-> g.blocks_9x9,
     blocks_state_3x3 |-> g.blocks_state_3x3,
     blocks_state_9x9 |-> g.blocks_state_9x9,
     active_9x9_block |-> JsonRoundTrip(g.active_9x9_block),
     active_3x3_block |-> JsonRoundTrip(g.active_3x3_block),
     saved_at |-> "timestamp"]

\* position in LoadOrder of the first key the file lacks, 0 when it has all:
\* game_data[key] raises KeyError there
FirstMissing(file) ==
    LET missing == {i \in 1 .. Len(LoadOrder) : LoadOrder[i] \notin DOMAIN file}
    IN  IF missing = {}
        THEN 0
        ELSE CHOOSE i \in missing : \A j \in missing : i <= j

\* a loader that reads each key with a default and never raises
load_gameSkipMissing(file) ==
    LET field(k) == IF k \in DOMAIN file THEN file[k] ELSE NewGame[k]
    IN  [raised |-> FALSE,
         game |-> [board |-> field("board"),
                   blocks_3x3 |-> field("blocks_3x3"),
                   blocks_9x9 |-> field("blocks_9x9"),
                   blocks_state_3x3 |-> field("blocks_state_3x3"),
                   blocks_state_9x9 |-> field("blocks_state_9x9"),
                   current_player |-> field("current_player"),
                   active_9x9_block |-> field("active_9x9_block"),
                   active_3x3_block |-> field("active_3x3_block"),
                   status |-> field("status")]]

\* load_game lines 74-94: a new GameLogic whose fields are assigned one by one
\* from the file until a key is missing; raised tells whether the call ended
\* in KeyError, game is the local object at that point (returned only when not
\* raised)
load_game(file) ==
    LET stop == FirstMissing(file)
        assigned(k) ==
            \E i \in 1 .. Len(LoadOrder) :
                LoadOrder[i] = k /\ (stop = 0 \/ i < stop)
        field(k) == IF assigned(k) THEN file[k] ELSE NewGame[k]
    IN  [raised |-> stop # 0,
         game |-> [board |-> field("board"),
                   blocks_3x3 |-> field("blocks_3x3"),
                   blocks_9x9 |-> field("blocks_9x9"),
                   blocks_state_3x3 |-> field("blocks_state_3x3"),
                   blocks_state_9x9 |-> field("blocks_state_9x9"),
                   current_player |-> field("current_player"),
                   active_9x9_block |-> field("active_9x9_block"),
                   active_3x3_block |-> field("active_3x3_block"),
                   status |-> field("status")]]

\* a save file with one key deleted
WithoutKey(file, key) == [k \in DOMAIN file \ {key} |-> file[k]]

\* ------------------------------------------------------------- the caller

\* ui.py calls make_move for whatever cell is clicked (GamePanel._on_cell_clicked),
\* reset_game on restart and save_game / load_game from the two buttons.  The
\* caller below plays one of three recorded games move by move, and may at any
\* time click one of the Probes instead; a probe the engine accepts leaves the
\* recorded game, which is then continued off the record only.

XWinsLine ==
    << <<1, 2>>, <<3, 6>>, <<2, 1>>, <<6, 3>>, <<1, 1>>, <<3, 3>>, <<0, 2>>, <<0, 6>>,
       <<0, 1>>, <<0, 4>>, <<1, 3>>, <<3, 1>>, <<1, 5>>, <<3, 7>>, <<1, 4>>, <<3, 12>>,
       <<0, 10>>, <<0, 12>>, <<1, 11>>, <<3, 15>>, <<0, 11>>, <<0, 15>>, <<1, 9>>, <<3, 9>>,
       <<0, 9>>, <<3, 2>>, <<2, 8>>, <<6, 8>>, <<0, 8>>, <<0, 7>>, <<1, 8>>, <<3, 24>>,
       <<0, 20>>, <<0, 24>>, <<1, 19>>, <<3, 21>>, <<2, 19>>, <<6, 21>>, <<0, 19>>, <<3, 10>>,
       <<0, 14>>, <<0, 16>>, <<1, 13>>, <<3, 13>>, <<2, 14>>, <<6, 16>>, <<2, 12>>, <<6, 11>>,
       <<2, 15>>, <<6, 9>>, <<2, 16>>, <<6, 14>>, <<2, 17>>, <<6, 26>>, <<0, 25>>, <<0, 23>>,
       <<2, 25>>, <<6, 23>>, <<1, 25>>, <<3, 22>>, <<0, 21>>, <<6, 25>>, <<2, 21>>, <<6, 19>>,
       <<1, 21>> >>

TakeoverLine ==
    << <<0, 3>>, <<0, 1>>, <<2, 4>>, <<6, 4>>, <<1, 5>>, <<3, 7>>, <<1, 3>>, <<3, 1>>,
       <<2, 5>>, <<6, 7>>, <<1, 4>>, <<3, 12>>, <<2, 10>>, <<6, 12>>, <<2, 9>>, <<6, 9>>,
       <<2, 11>>, <<6, 8>>, <<0, 7>>, <<3, 5>>, <<2, 6>>, <<6, 2>>, <<1, 7>>, <<3, 4>>,
       <<2, 7>>, <<6, 21>>, <<1, 18>>, <<3, 18>>, <<2, 18>>, <<6, 18>>, <<0, 18>>, <<0, 0>>,
       <<2, 0>>, <<6, 0>>, <<1, 2>>, <<3, 6>>, <<0, 2>>, <<3, 0>>, <<1, 1>>, <<4, 5>>,
       <<7, 4>>, <<3, 3>>, <<9, 10>>, <<9, 12>>, <<11, 9>>, <<15, 9>>, <<9, 11>>, <<9, 15>>,
       <<9, 9>>, <<3, 2>>, <<9, 6>>, <<9, 0>>, <<11, 1>>, <<15, 3>>, <<10, 0>>, <<12, 0>>,
       <<9, 1>>, <<9, 3>>, <<11, 0>>, <<15, 0>>, <<10, 1>>, <<5, 6>>, <<7, 8>>, <<5, 7>>,
       <<7, 2>>, <<5, 8>> >>

DeadEndLine ==
    << <<0, 2>>, <<0, 6>>, <<1, 0>>, <<3, 0>>, <<2, 1>>, <<6, 3>>, <<2, 2>>, <<6, 6>>,
       <<0, 0>>, <<0, 1>>, <<0, 3>>, <<1, 1>>, <<3, 3>>, <<1, 2>>, <<3, 6>>, <<2, 0>>,
       <<6, 0>> >>

Playbook == <<XWinsLine, TakeoverLine, DeadEndLine>>

\* off-script clicks: outside the board on each side, and cells spread over the
\* 9x9 blocks the recorded games use and do not use
Probes ==
    { <<-1, 0>>, <<0, 27>>, <<0, 0>>, <<8, 8>>, <<13, 13>>, <<26, 26>> }

\* accepted off-script moves per game
MaxOffScript == 1

NoCall == [op |-> "init", row |-> 0, col |-> 0, ret |-> FALSE]

SetGame(g) ==
    /\ board' = g.board
    /\ blocks_3x3' = g.blocks_3x3
    /\ blocks_9x9' = g.blocks_9x9
    /\ blocks_state_3x3' = g.blocks_state_3x3
    /\ blocks_state_9x9' = g.blocks_state_9x9
    /\ current_player' = g.current_player
    /\ active_9x9_block' = g.active_9x9_block
    /\ active_3x3_block' = g.active_3x3_block
    /\ status' = g.status

Init ==
    /\ board = NewGame.board
    /\ blocks_3x3 = NewGame.blocks_3x3
    /\ blocks_9x9 = NewGame.blocks_9x9
    /\ blocks_state_3x3 = NewGame.blocks_state_3x3
    /\ blocks_state_9x9 = NewGame.blocks_state_9x9
    /\ current_player = NewGame.current_player
    /\ active_9x9_block = NewGame.active_9x9_block
    /\ active_3x3_block = NewGame.active_3x3_block
    /\ status = NewGame.status
    /\ last = NoCall
    /\ line \in 1 .. Len(Playbook)
    /\ pos = 0
    /\ off = 0

\* one call of make_move(row, col) by the caller
CallMakeMove(row, col) ==
    LET res == make_move(Game, row, col)
    IN  /\ SetGame(res.g)
        /\ last' = [op |-> "make_move", row |-> row, col |-> col, ret |-> res.ret]

\* the next move of the recorded game
ScriptedMove ==
    /\ off = 0
    /\ pos < Len(Playbook[line])
    /\ CallMakeMove(Playbook[line][pos + 1][1], Playbook[line][pos + 1][2])
    /\ pos' = pos + 1
    /\ UNCHANGED <<line, off>>

\* a click off the recorded game
ProbeMove ==
    \E m \in Probes :
        /\ make_move(Game, m[1], m[2]).ret => off < MaxOffScript
        /\ CallMakeMove(m[1], m[2])
        /\ off' = IF make_move(Game, m[1], m[2]).ret THEN off + 1 ELSE off
        /\ UNCHANGED <<line, pos>>

\* GameLogic.reset_game, from the restart button; the recorded game starts over
\* the cells played in recorded game l
RecordedCells(l) == {Playbook[l][i] : i \in 1 .. Len(Playbook[l])}

\* a recorded cell played out of turn, when the engine accepts it
FreeMove ==
    \E m \in RecordedCells(line) :
        /\ off < MaxOffScript
        /\ ~Rejected(Game, m[1], m[2])
        /\ CallMakeMove(m[1], m[2])
        /\ off' = off + 1
        /\ UNCHANGED <<line, pos>>

\* a reset that clears the grids and leaves the selectors as they were
reset_gameKeepSelectors(g) ==
    [NewGame EXCEPT !.active_9x9_block = g.active_9x9_block,
                    !.active_3x3_block = g.active_3x3_block]

\* reset_game, lines 319-321: self.__init__() on the same object
reset_game(g) == NewGame

\* the caller's restart (ui.py GamePanel.reset_game), back at the first move
\* of the line
Restart ==
    /\ SetGame(reset_game(Game))
    /\ last' = [op |-> "reset_game", row |-> 0, col |-> 0, ret |-> FALSE]
    /\ pos' = 0
    /\ off' = 0
    /\ UNCHANGED line

\* save_game, then load_game of the file written; the loaded game replaces the
\* caller's (ui.py GamePanel._on_load_game)
SaveLoad ==
    /\ SetGame(SaveThenLoad(Game))
    /\ last' = [op |-> "load_game", row |-> 0, col |-> 0, ret |-> FALSE]
    /\ UNCHANGED <<line, pos, off>>

\* a file in the saves directory, written by save_game in another game (X has
\* opened in the centre), that the user may pick in the load dialog
OtherSave ==
    save_game(make_move(NewGame, 13, 13).g, "Player X", "Player O")

\* the keys that a damaged file may lack
DamagedKeys == {LoadOrder[i] : i \in 1 .. Len(LoadOrder)}

\* load_game on each damaged copy of the file
DamagedLoads ==
    {load_game(WithoutKey(OtherSave, key)) : key \in DamagedKeys}

\* ui.py GamePanel._on_load_game on a file lacking one key, one step per
\* outcome: self.game is assigned (line 933) only when load_game returned; an
\* exception leaves it
LoadDamaged ==
    \E raised \in {res.raised : res \in DamagedLoads} :
        /\ IF raised
           THEN UNCHANGED gameVars
           ELSE \E res \in DamagedLoads : ~res.raised /\ SetGame(res.game)
        /\ last' = [op |-> "load_game_damaged", row |-> 0, col |-> 0,
                    ret |-> ~raised]
        /\ UNCHANGED <<line, pos, off>>

Next ==
    \/ ScriptedMove
    \/ ProbeMove
    \/ FreeMove
    \/ Restart
    \/ SaveLoad
    \/ LoadDamaged

Spec == Init /\ [][Next]_vars

\* ------------------------------------------------------------------ claims

\* every argument pair a caller can pass that the claims distinguish: the board
\* and one step outside it on each side
Coords == (-1) .. BoardSize

MoveCalled == last.op = "make_move"
MoveAccepted == last.op = "make_move" /\ last.ret
MoveRefused == last.op = "make_move" /\ ~last.ret

\* C1: a make_move call on a coordinate that is not in get_valid_moves()
\* returns False and leaves every field as it was.
C1_InvalidMoveRejected ==
    [][(last'.op = "make_move" /\ <<last'.row, last'.col>> \notin get_valid_moves(Game))
         => (~last'.ret /\ UNCHANGED gameVars)]_vars

\* C2 as stated: current_player flips on every call that returns True, the
\* game-winning one included, and is unchanged by every call that returns False.
C2_PlayerFlipsOnEveryAcceptedMove ==
    [][last'.op = "make_move"
         => IF last'.ret
            THEN current_player' # current_player
            ELSE current_player' = current_player]_vars

\* C2 amended: current_player flips on every call that returns True and leaves
\* the game playing; the call that wins the game returns True and leaves
\* current_player on the winner; a call that returns False leaves it unchanged.
C2_PlayerFlipsUnlessGameWon ==
    [][last'.op = "make_move"
         => IF last'.ret /\ status' = "playing"
            THEN /\ current_player' # current_player
                 /\ current_player' \in {"X", "O"}
            ELSE current_player' = current_player]_vars

\* the winning move has been made: it returned True and the mover is still
\* current_player
C2_Witness ==
    /\ MoveAccepted
    /\ status = "X_wins"
    /\ current_player = "X"

\* C3: once blocks_9x9[B] holds a mark, no make_move changes it.
C3_MacroWinnerPermanent ==
    [][last'.op = "make_move"
         => \A R \in Idx3, C \in Idx3 :
                blocks_9x9[R][C] # "" => blocks_9x9'[R][C] = blocks_9x9[R][C]]_vars

\* C4: once blocks_3x3[b] holds a mark, no make_move changes it and none places
\* a mark in a cell of b.
C4_MicroWinnerPermanent ==
    [][last'.op = "make_move"
         => \A br \in Idx9, bc \in Idx9 :
                blocks_3x3[br][bc] # ""
                    => /\ blocks_3x3'[br][bc] = blocks_3x3[br][bc]
                       /\ \A r \in Idx3, c \in Idx3 :
                              board'[br * 3 + r][bc * 3 + c] = board[br * 3 + r][bc * 3 + c]]_vars

\* a call aimed at an empty cell of a won 3x3 block, which passed every earlier
\* check, was refused
C4_Witness ==
    /\ MoveRefused
    /\ status = "playing"
    /\ ~OutOfRange(last.row, last.col)
    /\ board[last.row][last.col] = ""
    /\ ~Wrong9x9(Game, last.row, last.col)
    /\ ~Wrong3x3(Game, last.row, last.col)
    /\ blocks_3x3[last.row \div 3][last.col \div 3] # ""

\* C5: whenever make_move returns False, no field differs from its value
\* before the call.
C5_RefusedMoveChangesNothing ==
    [][(last'.op = "make_move" /\ ~last'.ret) => UNCHANGED gameVars]_vars

\* a call that reached the last of the six checks (an empty cell of a 3x3
\* block already won, in the block the selectors allow) has been refused
C5_Witness ==
    /\ MoveRefused
    /\ status = "playing"
    /\ ~OutOfRange(last.row, last.col)
    /\ board[last.row][last.col] = ""
    /\ ~Wrong9x9(Game, last.row, last.col)
    /\ ~Wrong3x3(Game, last.row, last.col)
    /\ BlockAlreadyWon(Game, last.row, last.col)
    /\ active_9x9_block # None

\* C6: every coordinate of get_valid_moves() is an empty cell of a 3x3 block
\* without a winner, inside the active 9x9 block when one is set and inside a
\* 9x9 block without a winner when none is.
C6_ValidMovesAreLegalCells ==
    \A m \in get_valid_moves(Game) :
        /\ m[1] \in Idx27 /\ m[2] \in Idx27
        /\ board[m[1]][m[2]] = ""
        /\ blocks_3x3[m[1] \div 3][m[2] \div 3] = ""
        /\ IF active_9x9_block # None
           THEN /\ m[1] \div 9 = SelRow(active_9x9_block)
                /\ m[2] \div 9 = SelCol(active_9x9_block)
           ELSE blocks_9x9[m[1] \div 9][m[2] \div 9] = ""

\* free choice with a 9x9 block and some 3x3 blocks already won, and moves
\* left to enumerate
C6_Witness ==
    /\ MoveAccepted
    /\ active_9x9_block = None
    /\ \E R \in Idx3, C \in Idx3 : blocks_9x9[R][C] # ""
    /\ \E R \in Idx3, C \in Idx3 :
           /\ blocks_9x9[R][C] = ""
           /\ \E r \in Idx3, c \in Idx3 : blocks_3x3[R * 3 + r][C * 3 + c] # ""
    /\ get_valid_moves(Game) # {}

\* C7: with active_9x9_block None, make_move refuses every cell of a 9x9 block
\* that already has a winner.
C7_FreeChoiceSkipsWonMacro ==
    active_9x9_block = None
        => \A row \in Idx27, col \in Idx27 :
               blocks_9x9[row \div 9][col \div 9] # "" => ~make_move(Game, row, col).ret

\* C8: once status is a won status, every make_move call, whatever its
\* arguments, returns False and changes no field, so status stays won.
C8_NoMoveAfterWin ==
    [][status # "playing"
         => /\ \A row \in Coords, col \in Coords : ~make_move(Game, row, col).ret
            /\ (last'.op = "make_move" => (~last'.ret /\ UNCHANGED gameVars))]_vars

\* a call on an empty cell of the board was refused after the game was won
C8_Witness ==
    /\ status \in {"X_wins", "O_wins"}
    /\ MoveRefused
    /\ ~OutOfRange(last.row, last.col)
    /\ board[last.row][last.col] = ""

\* C9: after an accepted move that does not win its 3x3 block, the 9x9
\* selector is the move's 9x9 block and the 3x3 selector is (row % 3, col % 3)
\* when the 3x3 block at that place of that 9x9 block has no winner, else None.
C9_LevelOneMirror ==
    [][(/\ last'.op = "make_move"
        /\ last'.ret
        /\ blocks_3x3'[last'.row \div 3][last'.col \div 3] = "")
         => /\ active_9x9_block' = tuple(last'.row \div 9, last'.col \div 9)
            /\ active_3x3_block' =
                   IF blocks_3x3[(last'.row \div 9) * 3 + (last'.row % 3)]
                                [(last'.col \div 9) * 3 + (last'.col % 3)] = ""
                   THEN tuple(last'.row % 3, last'.col % 3)
                   ELSE None]_vars

\* a move that won nothing pointed at a 3x3 block already won: free choice
\* inside the move's 9x9 block
C9_Witness ==
    /\ MoveAccepted
    /\ blocks_3x3[last.row \div 3][last.col \div 3] = ""
    /\ active_9x9_block = tuple(last.row \div 9, last.col \div 9)
    /\ active_3x3_block = None
    /\ blocks_3x3[(last.row \div 9) * 3 + (last.row % 3)]
                 [(last.col \div 9) * 3 + (last.col % 3)] # ""

\* C10: after an accepted move that wins its 3x3 block without ending the
\* game, if the 9x9 block at the won block's local position has a winner (set
\* earlier or by this move), both selectors are None.
C10_LevelTwoFallback ==
    [][(/\ last'.op = "make_move"
        /\ last'.ret
        /\ blocks_3x3'[last'.row \div 3][last'.col \div 3] # ""
        /\ status' = "playing"
        /\ blocks_9x9'[(last'.row \div 3) % 3][(last'.col \div 3) % 3] # "")
         => /\ active_9x9_block' = None
            /\ active_3x3_block' = None]_vars

\* the move won its 3x3 block and, with it, its own 9x9 block, which is the
\* block the win points to
C10_Witness ==
    /\ MoveAccepted
    /\ status = "playing"
    /\ blocks_3x3[last.row \div 3][last.col \div 3] # ""
    /\ (last.row \div 3) % 3 = last.row \div 9
    /\ (last.col \div 3) % 3 = last.col \div 9
    /\ blocks_9x9[last.row \div 9][last.col \div 9] # ""
    /\ active_9x9_block = None
    /\ active_3x3_block = None

\* the same with the target 9x9 block won before the move
C10_WitnessEarlierWin ==
    /\ MoveAccepted
    /\ status = "playing"
    /\ blocks_3x3[last.row \div 3][last.col \div 3] # ""
    /\ <<(last.row \div 3) % 3, (last.col \div 3) % 3>> # <<last.row \div 9, last.col \div 9>>
    /\ blocks_9x9[(last.row \div 3) % 3][(last.col \div 3) % 3] # ""
    /\ active_9x9_block = None

\* C11: after an accepted move at (row, col) that wins its 3x3 block without
\* ending the game, if the 9x9 block T = ((row \div 3) % 3, (col \div 3) % 3)
\* has no winner, then active_9x9_block = T, and active_3x3_block is
\* (row % 3, col % 3) if the 3x3 block at that local position inside T has no
\* winner (the block just won counted), None otherwise.
C11_LevelTwoRedirect ==
    [][(/\ last'.op = "make_move"
        /\ last'.ret
        /\ blocks_3x3'[last'.row \div 3][last'.col \div 3] # ""
        /\ status' = "playing"
        /\ blocks_9x9'[(last'.row \div 3) % 3][(last'.col \div 3) % 3] = "")
         => /\ active_9x9_block' =
                   tuple((last'.row \div 3) % 3, (last'.col \div 3) % 3)
            /\ active_3x3_block' =
                   IF blocks_3x3'[((last'.row \div 3) % 3) * 3 + (last'.row % 3)]
                                 [((last'.col \div 3) % 3) * 3 + (last'.col % 3)] = ""
                   THEN tuple(last'.row % 3, last'.col % 3)
                   ELSE None]_vars

\* a 3x3 block was won and the play is sent to another 9x9 block, pinned to
\* the 3x3 block at the winning cell's local position
C11_Witness ==
    /\ MoveAccepted
    /\ status = "playing"
    /\ blocks_3x3[last.row \div 3][last.col \div 3] # ""
    /\ <<(last.row \div 3) % 3, (last.col \div 3) % 3>> # <<last.row \div 9, last.col \div 9>>
    /\ blocks_9x9[(last.row \div 3) % 3][(last.col \div 3) % 3] = ""
    /\ active_9x9_block = tuple((last.row \div 3) % 3, (last.col \div 3) % 3)
    /\ active_3x3_block = tuple(last.row % 3, last.col % 3)

\* the same with the target 3x3 block already won: free choice inside T
C11_WitnessTargetWon ==
    /\ MoveAccepted
    /\ status = "playing"
    /\ blocks_3x3[last.row \div 3][last.col \div 3] # ""
    /\ blocks_9x9[(last.row \div 3) % 3][(last.col \div 3) % 3] = ""
    /\ active_9x9_block = tuple((last.row \div 3) % 3, (last.col \div 3) % 3)
    /\ blocks_3x3[((last.row \div 3) % 3) * 3 + (last.row % 3)]
                 [((last.col \div 3) % 3) * 3 + (last.col % 3)] # ""
    /\ active_3x3_block = None

\* C12: in every reachable state and for each player p, status is p's win if
\* and only if blocks_9x9 holds a row, column or diagonal of three p; so no
\* playing state has three aligned equal 9x9 winners.
C12_StatusWonIffMacroLine ==
    \A p \in {"X", "O"} : (status = WinStatus(p)) <=> LineWin(blocks_9x9, p)

\* a won game: the status names the player whose 9x9 line is on the board
C12_Witness ==
    /\ MoveAccepted
    /\ status = "X_wins"
    /\ LineWin(blocks_9x9, "X")
    /\ ~LineWin(blocks_9x9, "O")

\* a playing state with two 9x9 winners on the board, not yet a line
C12_WitnessPlaying ==
    /\ status = "playing"
    /\ Cardinality({b \in Idx3 \X Idx3 : blocks_9x9[b[1]][b[2]] # ""}) >= 2
    /\ ~LineWin(blocks_9x9, "X")
    /\ ~LineWin(blocks_9x9, "O")

\* the winners of the nine 3x3 blocks inside 9x9 block (R, C), read from
\* blocks_3x3
MicroWinners(R, C) ==
    [r \in Idx3 |-> [c \in Idx3 |-> blocks_3x3[R * 3 + r][C * 3 + c]]]

\* C13: in every reachable state, a 9x9 block recorded as won by p has a row,
\* column or diagonal of three 3x3 blocks won by p inside it.
C13_MacroWinnerHasMicroLine ==
    \A R \in Idx3, C \in Idx3 :
        blocks_9x9[R][C] # "" => LineWin(MicroWinners(R, C), blocks_9x9[R][C])

\* the move just won a 3x3 block and, with it, its 9x9 block
C13_Witness ==
    /\ MoveAccepted
    /\ blocks_3x3[last.row \div 3][last.col \div 3] # ""
    /\ blocks_9x9[last.row \div 9][last.col \div 9] = blocks_3x3[last.row \div 3][last.col \div 3]
    /\ LineWin(MicroWinners(last.row \div 9, last.col \div 9),
               blocks_9x9[last.row \div 9][last.col \div 9])

\* a 9x9 block holding a line of each player: won by X, later taken by O
C13_WitnessTakenOver ==
    \E R \in Idx3, C \in Idx3 :
        /\ blocks_9x9[R][C] = "O"
        /\ LineWin(MicroWinners(R, C), "X")
        /\ LineWin(MicroWinners(R, C), "O")

\* the nine cells of 3x3 block (i, j), read from the board
MicroCells(i, j) ==
    [r \in Idx3 |-> [c \in Idx3 |-> board[i * 3 + r][j * 3 + c]]]

\* C14: in every reachable state, for every 3x3 block b and player p,
\* blocks_3x3[b] = p if and only if the nine cells of b hold a row, column or
\* diagonal of three p; holding in the state right after each move, it says
\* that the move completing a line records the winner.
C14_MicroWinnerIffCellLine ==
    \A i \in Idx9, j \in Idx9 : \A p \in {"X", "O"} :
        (blocks_3x3[i][j] = p)
            <=> \/ \E r \in Idx3 : \A c \in Idx3 : board[3 * i + r][3 * j + c] = p
                \/ \E c \in Idx3 : \A r \in Idx3 : board[3 * i + r][3 * j + c] = p
                \/ \A d \in Idx3 : board[3 * i + d][3 * j + d] = p
                \/ \A d \in Idx3 : board[3 * i + d][3 * j + 2 - d] = p

\* the move just completed a line in its 3x3 block and the block is recorded
\* as won by the mover
C14_Witness ==
    /\ MoveAccepted
    /\ LineWin(MicroCells(last.row \div 3, last.col \div 3),
               board[last.row][last.col])
    /\ blocks_3x3[last.row \div 3][last.col \div 3] = board[last.row][last.col]

\* C15: in every reachable state, active_3x3_block is set only if
\* active_9x9_block is set.
C15_MicroSelectorNeedsMacroSelector ==
    active_3x3_block # None => active_9x9_block # None

\* a move has just pinned both selectors
C15_Witness ==
    /\ MoveAccepted
    /\ active_3x3_block # None
    /\ active_9x9_block # None

\* a move that found both selectors set has just cleared both
C15_WitnessCleared ==
    /\ MoveAccepted
    /\ blocks_3x3[last.row \div 3][last.col \div 3] # ""
    /\ active_9x9_block = None
    /\ active_3x3_block = None

\* C16: no make_move call changes a cell that holds a mark, and every accepted
\* make_move call writes the mover's mark into a cell that was empty.
C16_CellsWriteOnce ==
    [][(last'.op = "make_move")
         => /\ \A r \in Idx27, c \in Idx27 :
                   board[r][c] # "" => board'[r][c] = board[r][c]
            /\ last'.ret
                 => /\ board[last'.row][last'.col] = ""
                    /\ board'[last'.row][last'.col] = current_player]_vars

\* O has just marked a cell on a board that already held marks of both players
C16_Witness ==
    /\ MoveAccepted
    /\ board[last.row][last.col] = "O"
    /\ \E r \in Idx27, c \in Idx27 : <<r, c>> # <<last.row, last.col>> /\ board[r][c] = "O"
    /\ \E r \in Idx27, c \in Idx27 : board[r][c] = "X"

\* a call on a marked cell was refused
C16_WitnessRefused ==
    /\ MoveRefused
    /\ ~OutOfRange(last.row, last.col)
    /\ status = "playing"
    /\ board[last.row][last.col] # ""

\* C17: every make_move call that returns True was made on a cell that was
\* empty and whose 3x3 block had no winner in the state before the call.
C17_AcceptedMoveOnOpenCell ==
    [][(last'.op = "make_move" /\ last'.ret)
         => /\ board[last'.row][last'.col] = ""
            /\ blocks_3x3[last'.row \div 3][last'.col \div 3] = ""]_vars

\* an accepted move into a 3x3 block next to won ones, with marks around it
C17_Witness ==
    /\ MoveAccepted
    /\ \E r \in Idx27, c \in Idx27 :
           /\ <<r, c>> # <<last.row, last.col>>
           /\ r \div 3 = last.row \div 3
           /\ c \div 3 = last.col \div 3
           /\ board[r][c] # ""
    /\ \E i \in Idx9, j \in Idx9 : blocks_3x3[i][j] # ""

\* the empty cells of 3x3 block (i, j)
EmptyCellsOf(i, j) ==
    {<<r, c>> \in (i * 3 .. i * 3 + 2) \X (j * 3 .. j * 3 + 2) : board[r][c] = ""}

\* the 9x9 blocks open to the mover: the active one, or every unwon one
ExpandedMacroBlocks ==
    IF active_9x9_block = None
    THEN {B \in Idx3 \X Idx3 : blocks_9x9[B[1]][B[2]] = ""}
    ELSE {<<SelRow(active_9x9_block), SelCol(active_9x9_block)>>}

\* the 3x3 blocks open inside 9x9 block B, as global 3x3 positions: the pinned
\* one when the pair of selectors names one inside B, every unwon one otherwise
ExpandedMicroBlocks(B) ==
    IF /\ active_9x9_block # None
       /\ active_3x3_block # None
       /\ B = <<SelRow(active_9x9_block), SelCol(active_9x9_block)>>
    THEN {<<B[1] * 3 + SelRow(active_3x3_block), B[2] * 3 + SelCol(active_3x3_block)>>}
    ELSE {b \in (B[1] * 3 .. B[1] * 3 + 2) \X (B[2] * 3 .. B[2] * 3 + 2) :
              blocks_3x3[b[1]][b[2]] = ""}

\* C18: get_valid_moves returns exactly: nothing when the game is not
\* playing; otherwise every empty cell of the expanded 3x3 blocks, the 9x9
\* blocks being the active one or all unwon ones when active_9x9_block is
\* None, and inside each the 3x3 blocks being the pinned one when
\* active_3x3_block is set for that 9x9 block or all unwon ones otherwise.
C18_ValidMovesExact ==
    get_valid_moves(Game) =
        IF status # "playing"
        THEN {}
        ELSE UNION {UNION {EmptyCellsOf(b[1], b[2]) : b \in ExpandedMicroBlocks(B)} :
                        B \in ExpandedMacroBlocks}

\* the same restricted to the states no load_game has touched: selectors are
\* None or tuples
C18_ValidMovesExactUnlessLoaded ==
    (active_9x9_block \in {None} \cup {tuple(r, c) : r \in Idx3, c \in Idx3})
        => C18_ValidMovesExact

\* the state a new GameLogic is in, field by field
FreshGameState ==
    /\ \A r \in Idx27, c \in Idx27 : board[r][c] = ""
    /\ \A i \in Idx9, j \in Idx9 :
           /\ blocks_3x3[i][j] = ""
           /\ \A r \in Idx3, c \in Idx3 : blocks_state_3x3[i][j][r][c] = ""
    /\ \A R \in Idx3, C \in Idx3 :
           /\ blocks_9x9[R][C] = ""
           /\ \A r \in Idx3, c \in Idx3 : blocks_state_9x9[R][C][r][c] = ""
    /\ current_player = "X"
    /\ active_9x9_block = None
    /\ active_3x3_block = None
    /\ status = "playing"

\* C19: reset_game, called in any reachable state, playing or won, leaves
\* exactly the fresh-game state: all 729 cells, all 3x3 and 9x9 winners and
\* both caches empty, X to move, both selectors None, status playing; and a
\* move is accepted again: make_move returns True on every cell of the board.
C19_ResetGivesFreshGame ==
    (last.op = "reset_game")
        => /\ FreshGameState
           /\ \A r \in Idx27, c \in Idx27 : make_move(Game, r, c).ret

\* the state right after a reset
C19_Witness ==
    /\ last.op = "reset_game"
    /\ FreshGameState
    /\ make_move(Game, 13, 13).ret

\* refuted, to show where the resets above come from: reset_game is never
\* called on a won game with both selectors set
C19_NoResetOfWonGame ==
    [][~(/\ status = "X_wins"
         /\ active_9x9_block # None
         /\ active_3x3_block # None
         /\ last'.op = "reset_game")]_vars

\* C20: load_game applied to the file save_game wrote gives back the saved
\* state in every engine field (board, blocks_3x3, blocks_9x9,
\* blocks_state_3x3, blocks_state_9x9, current_player, status,
\* active_9x9_block, active_3x3_block), also when the selectors are set.
C20_SnapshotRoundTrip ==
    [][(last'.op = "load_game") => Game' = Game]_vars

\* what the round trip does keep: every grid, the player and the status, and
\* the selectors' None-ness and coordinates, a tuple coming back as a list
C20_RoundTripUpToSelectorType ==
    [][(last'.op = "load_game")
         => /\ UNCHANGED <<board, blocks_3x3, blocks_9x9, blocks_state_3x3,
                           blocks_state_9x9, current_player, status>>
            /\ active_9x9_block' = JsonRoundTrip(active_9x9_block)
            /\ active_3x3_block' = JsonRoundTrip(active_3x3_block)
            /\ (active_9x9_block # None
                  => /\ active_9x9_block' # tuple(SelRow(active_9x9_block),
                                                  SelCol(active_9x9_block))
                     /\ SelRow(active_9x9_block') = SelRow(active_9x9_block)
                     /\ SelCol(active_9x9_block') = SelCol(active_9x9_block))]_vars

\* no call of make_move on a cell of the board would be accepted
NoLegalMove ==
    \A r \in Idx27, c \in Idx27 : ~make_move(Game, r, c).ret

\* C21: status never takes a draw value: it is playing, X's win or O's win in
\* every reachable state, and a state where no legal move remains and
\* blocks_9x9 holds no line is still playing, with get_valid_moves empty.
C21_NoDrawStatus ==
    /\ status \in {"playing", "X_wins", "O_wins"}
    /\ (/\ NoLegalMove
        /\ ~LineWin(blocks_9x9, "X")
        /\ ~LineWin(blocks_9x9, "O"))
         => /\ status = "playing"
            /\ get_valid_moves(Game) = {}

\* the part of C21 that does not read the enumeration
C21_StuckGameStaysPlaying ==
    /\ status \in {"playing", "X_wins", "O_wins"}
    /\ (/\ NoLegalMove
        /\ ~LineWin(blocks_9x9, "X")
        /\ ~LineWin(blocks_9x9, "O"))
         => status = "playing"

\* a playing game where a move has just left the mover's opponent pinned to a
\* full, unwon 3x3 block
C21_Witness ==
    /\ MoveAccepted
    /\ status = "playing"
    /\ NoLegalMove
    /\ get_valid_moves(Game) = {}

\* C22: load_game on a snapshot missing any required key ends in an error
\* before a game object is returned, and the game the caller held before the
\* attempt is unchanged in every field.
C22_DamagedLoadChangesNothing ==
    [][(last'.op = "load_game_damaged")
         => /\ ~last'.ret
            /\ UNCHANGED gameVars]_vars

\* a damaged file was refused while the caller held a game in progress, which
\* differs from what load_game had assigned when it failed on the last key
C22_Witness ==
    /\ last.op = "load_game_damaged"
    /\ ~last.ret
    /\ \E i \in Idx9, j \in Idx9 : blocks_3x3[i][j] # ""
    /\ load_game(WithoutKey(OtherSave, "player_o_name")).raised
    /\ load_game(WithoutKey(OtherSave, "player_o_name")).game # Game

\* on a whole file load_game does not raise and returns what SaveThenLoad says
C22_WholeFileLoads ==
    /\ ~load_game(save_game(Game, "Player X", "Player O")).raised
    /\ load_game(save_game(Game, "Player X", "Player O")).game = SaveThenLoad(Game)

\* the pairs of coordinates from -1 to 27 that are outside the board
OutsideBoard ==
    {m \in Coords \X Coords : OutOfRange(m[1], m[2])}

\* one pair past each side and each corner of the board
OutsideSamples ==
    {<<-1, -1>>, <<-1, 13>>, <<-1, 27>>, <<13, -1>>,
     <<13, 27>>, <<27, -1>>, <<27, 13>>, <<27, 27>>}

\* C23: make_move with row or col outside 0..26, negative values included,
\* returns False in every state, for every such pair of coordinates from -1
\* to 27, and changes no field of the game, compared field by field for the
\* pairs of OutsideSamples. The range test comes before any read of the
\* board, so the call ends without an index error.
C23_OutOfRangeRefused ==
    LET g == Game
    IN  /\ \A m \in OutsideBoard : ~make_move(g, m[1], m[2]).ret
        /\ \A m \in OutsideSamples : make_move(g, m[1], m[2]).g = g

\* a call with a negative row was refused in a game in progress
C23_Witness ==
    /\ MoveRefused
    /\ last.row < 0
    /\ status = "playing"
    /\ \E r \in Idx27, c \in Idx27 : board[r][c] # ""

\* a call with a column past the last one was refused
C23_WitnessPastEnd ==
    /\ MoveRefused
    /\ last.col >= BoardSize
    /\ status = "playing"

\* C24: in every reachable state make_move returns True on every cell that
\* get_valid_moves lists.
C24_ListedMovesAreAccepted ==
    \A m \in get_valid_moves(Game) : make_move(Game, m[1], m[2]).ret

\* the same in the states whose selectors are None or tuples, as make_move
\* leaves them
C24_ListedMovesAreAcceptedUnlessLoaded ==
    (active_9x9_block \in {None} \cup {tuple(r, c) : r \in Idx3, c \in Idx3})
        => \A m \in get_valid_moves(Game) : make_move(Game, m[1], m[2]).ret

\* the accepted call of this step put its mark in the pinned 3x3 block of the
\* active 9x9 block
MarkInPinnedBlock ==
    /\ last'.row \div 9 = SelRow(active_9x9_block)
    /\ last'.col \div 9 = SelCol(active_9x9_block)
    /\ (last'.row \div 3) % 3 = SelRow(active_3x3_block)
    /\ (last'.col \div 3) % 3 = SelCol(active_3x3_block)

\* C25: in every reachable state where active_3x3_block is set to (r, c),
\* every make_move call that returns True places its mark in the 3x3 block at
\* local position (r, c) of the active 9x9 block.
C25_AcceptedMoveObeysPin ==
    [][(/\ last'.op = "make_move"
        /\ last'.ret
        /\ active_3x3_block # None)
         => MarkInPinnedBlock]_vars

\* the same where the active 9x9 block has no winner
C25_AcceptedMoveObeysPinInOpenMacro ==
    [][(/\ last'.op = "make_move"
        /\ last'.ret
        /\ active_3x3_block # None
        /\ blocks_9x9[SelRow(active_9x9_block)][SelCol(active_9x9_block)] = "")
         => MarkInPinnedBlock]_vars

\* C26: in every reachable state with status playing, if active_9x9_block is
\* set, the 9x9 block it names has no winner in blocks_9x9.
C26_ActiveMacroIsOpen ==
    (status = "playing" /\ active_9x9_block # None)
        => blocks_9x9[SelRow(active_9x9_block)][SelCol(active_9x9_block)] = ""

\* what make_move does ensure: a move made inside a 9x9 block without a
\* winner never leaves a won 9x9 block as the active one
C26_MoveInOpenMacroKeepsActiveMacroOpen ==
    [][(/\ last'.op = "make_move"
        /\ last'.ret
        /\ blocks_9x9[last'.row \div 9][last'.col \div 9] = ""
        /\ status' = "playing"
        /\ active_9x9_block' # None)
         => blocks_9x9'[SelRow(active_9x9_block')][SelCol(active_9x9_block')] = ""]_vars

\* C27: in every reachable state, if active_3x3_block is set to (r, c), with
\* active_9x9_block = (R, C), the 3x3 block at global position
\* (3R + r, 3C + c) has no winner in blocks_3x3.
C27_PinnedMicroIsOpen ==
    active_3x3_block # None
        => blocks_3x3[3 * SelRow(active_9x9_block) + SelRow(active_3x3_block)]
                     [3 * SelCol(active_9x9_block) + SelCol(active_3x3_block)] = ""

\* C27, amended: the same in every reachable state with status playing. The
\* move that wins the game is made in the pinned 3x3 block, wins it and
\* leaves the selectors as they were.
C27_PinnedMicroIsOpenWhilePlaying ==
    (status = "playing" /\ active_3x3_block # None)
        => blocks_3x3[3 * SelRow(active_9x9_block) + SelRow(active_3x3_block)]
                     [3 * SelCol(active_9x9_block) + SelCol(active_3x3_block)] = ""

\* a playing state with the pin set on an open 3x3 block, next to won 3x3
\* blocks in the same 9x9 block
C27_Witness ==
    /\ MoveAccepted
    /\ status = "playing"
    /\ active_3x3_block # None
    /\ blocks_3x3[3 * SelRow(active_9x9_block) + SelRow(active_3x3_block)]
                 [3 * SelCol(active_9x9_block) + SelCol(active_3x3_block)] = ""
    /\ \E r \in Idx3, c \in Idx3 :
           blocks_3x3[3 * SelRow(active_9x9_block) + r]
                     [3 * SelCol(active_9x9_block) + c] # ""

\* a playing state where the pin was not set because its target is won
C27_WitnessTargetWon ==
    /\ MoveAccepted
    /\ status = "playing"
    /\ active_9x9_block # None
    /\ active_3x3_block = None
    /\ blocks_3x3[3 * SelRow(active_9x9_block) + (last.row % 3)]
                 [3 * SelCol(active_9x9_block) + (last.col % 3)] # ""

\* some empty cell lies in a 3x3 block without a winner
OpenCellLeft ==
    \E r \in Idx27, c \in Idx27 :
        board[r][c] = "" /\ blocks_3x3[r \div 3][c \div 3] = ""

\* C28: in every reachable state with status playing in which some empty cell
\* lies in a 3x3 block without a winner, get_valid_moves is not empty and
\* some make_move call is accepted.
C28_NoPrematureDeadEnd ==
    (status = "playing" /\ OpenCellLeft)
        => /\ get_valid_moves(Game) # {}
           /\ ~NoLegalMove

\* what does hold: a playing game is stuck only when it is pinned to a 3x3
\* block with no empty cell
C28_StuckOnlyOnFullPinnedBlock ==
    (status = "playing" /\ OpenCellLeft /\ NoLegalMove)
        => /\ active_3x3_block # None
           /\ \A r \in Idx3, c \in Idx3 :
                  board[9 * SelRow(active_9x9_block) + 3 * SelRow(active_3x3_block) + r]
                       [9 * SelCol(active_9x9_block) + 3 * SelCol(active_3x3_block) + c] # ""

\* C29: the make_move call that wins the game returns True, sets status to
\* the mover's win and leaves active_9x9_block, active_3x3_block and
\* current_player as they were before the call.
C29_WinningMoveFrame ==
    [][(/\ last'.op = "make_move"
        /\ status = "playing"
        /\ status' # "playing")
         => /\ last'.ret
            /\ status' = WinStatus(current_player)
            /\ UNCHANGED <<active_9x9_block, active_3x3_block, current_player>>]_vars

\* X has just won the game with both selectors set: they still name the block
\* the winning move was made in, and X is still the current player
C29_Witness ==
    /\ MoveAccepted
    /\ status = "X_wins"
    /\ current_player = "X"
    /\ active_9x9_block = tuple(last.row \div 9, last.col \div 9)
    /\ active_3x3_block = tuple((last.row \div 3) % 3, (last.col \div 3) % 3)

\* C30: within one make_move call wins go bottom-up: an entry of blocks_9x9
\* changes only if the call sets the winner of a 3x3 block inside that 9x9
\* block, and status changes only if the call sets an entry of blocks_9x9.
C30_WinsCascadeBottomUp ==
    [][(last'.op = "make_move")
         => /\ \A R \in Idx3, C \in Idx3 :
                   blocks_9x9'[R][C] # blocks_9x9[R][C]
                     => \E r \in Idx3, c \in Idx3 :
                            /\ blocks_3x3[3 * R + r][3 * C + c] = ""
                            /\ blocks_3x3'[3 * R + r][3 * C + c] = blocks_9x9'[R][C]
            /\ status' # status
                 => \E R \in Idx3, C \in Idx3 :
                        /\ blocks_9x9'[R][C] # blocks_9x9[R][C]
                        /\ status' = WinStatus(blocks_9x9'[R][C])]_vars

\* the move has won a 3x3 block, with it its 9x9 block and with that the game
C30_Witness ==
    /\ MoveAccepted
    /\ status = WinStatus(board[last.row][last.col])
    /\ blocks_9x9[last.row \div 9][last.col \div 9] = board[last.row][last.col]
    /\ blocks_3x3[last.row \div 3][last.col \div 3] = board[last.row][last.col]

\* the move has won a 3x3 block and its 9x9 block, and the game goes on
C30_WitnessMacroOnly ==
    /\ MoveAccepted
    /\ status = "playing"
    /\ blocks_9x9[last.row \div 9][last.col \div 9] = board[last.row][last.col]
    /\ blocks_3x3[last.row \div 3][last.col \div 3] = board[last.row][last.col]
    /\ LineWin(MicroCells(last.row \div 3, last.col \div 3), board[last.row][last.col])

\* C31: every winner that an accepted make_move call records is the mover:
\* each entry of blocks_3x3 or blocks_9x9 the call changes, and the won status
\* it sets, carries the value current_player had before the call.
C31_RecordedWinnerIsMover ==
    [][(last'.op = "make_move" /\ last'.ret)
         => /\ \A i \in Idx9, j \in Idx9 :
                   blocks_3x3'[i][j] # blocks_3x3[i][j]
                     => blocks_3x3'[i][j] = current_player
            /\ \A R \in Idx3, C \in Idx3 :
                   blocks_9x9'[R][C] # blocks_9x9[R][C]
                     => blocks_9x9'[R][C] = current_player
            /\ status' # status => status' = WinStatus(current_player)]_vars

\* O, the second player, has just won a 3x3 block with a line of its own marks
C31_Witness ==
    /\ MoveAccepted
    /\ status = "playing"
    /\ current_player = "X"
    /\ board[last.row][last.col] = "O"
    /\ blocks_3x3[last.row \div 3][last.col \div 3] = "O"
    /\ LineWin(MicroCells(last.row \div 3, last.col \div 3), "O")

\* O has just won a 3x3 block and with it a 9x9 block
C31_WitnessMacro ==
    /\ MoveAccepted
    /\ board[last.row][last.col] = "O"
    /\ blocks_3x3[last.row \div 3][last.col \div 3] = "O"
    /\ blocks_9x9[last.row \div 9][last.col \div 9] = "O"

\* C32: in every reachable state, the game obtained by save_game then
\* load_game behaves as the saved one: get_valid_moves returns the same set of
\* cells and make_move returns the same value for every pair of coordinates.
C32_LoadedGameBehavesAlike ==
    LET saved == Game
        loaded == SaveThenLoad(Game)
    IN  /\ get_valid_moves(loaded) = get_valid_moves(saved)
        /\ \A r \in Coords, c \in Coords :
               make_move(loaded, r, c).ret = make_move(saved, r, c).ret

\* the half that holds: make_move reads the selectors by unpacking them, so
\* it answers alike for tuples and lists
C32_LoadedGameAcceptsSameMoves ==
    LET saved == Game
        loaded == SaveThenLoad(Game)
    IN  \A r \in Coords, c \in Coords :
            make_move(loaded, r, c).ret = make_move(saved, r, c).ret

\* C33: in every reachable state the cell cache of each 3x3 block mirrors the
\* board: blocks_state_3x3[br][bc][r][c] = board[3 * br + r][3 * bc + c].
C33_CellCacheMirrorsBoard ==
    [](\A br \in Idx9, bc \in Idx9 : \A r \in Idx3, c \in Idx3 :
           blocks_state_3x3[br][bc][r][c] = board[3 * br + r][3 * bc + c])

\* a move has just been recorded in both, on a board holding other marks
C33_Witness ==
    /\ MoveAccepted
    /\ board[last.row][last.col] # ""
    /\ blocks_state_3x3[last.row \div 3][last.col \div 3][last.row % 3][last.col % 3]
           = board[last.row][last.col]
    /\ \E r \in Idx27, c \in Idx27 :
           <<r, c>> # <<last.row, last.col>> /\ board[r][c] # ""

\* C34: in every reachable state the winner cache of each 9x9 block mirrors
\* the 3x3 winners: blocks_state_9x9[R][C][r][c] = blocks_3x3[3 * R + r][3 * C + c].
C34_WinnerCacheMirrorsMicroWinners ==
    \A R \in Idx3, C \in Idx3 : \A r \in Idx3, c \in Idx3 :
        blocks_state_9x9[R][C][r][c] = blocks_3x3[3 * R + r][3 * C + c]

\* a move has just won a 3x3 block and the winner is in both
C34_Witness ==
    /\ MoveAccepted
    /\ blocks_3x3[last.row \div 3][last.col \div 3] = board[last.row][last.col]
    /\ blocks_state_9x9[last.row \div 9][last.col \div 9]
                       [(last.row \div 3) % 3][(last.col \div 3) % 3]
           = board[last.row][last.col]

\* the number of cells of the board holding the mark of player p
Marks(p) ==
    Cardinality({m \in Idx27 \X Idx27 : board[m[1]][m[2]] = p})

\* C35: in every reachable state the number of X marks on the board minus the
\* number of O marks is 0 or 1; while the game is playing, current_player is
\* X exactly when the two numbers are equal and O exactly when X has one more.
C35_TurnParity ==
    [](/\ Marks("X") - Marks("O") \in {0, 1}
       /\ status = "playing"
            => /\ (current_player = "X") <=> (Marks("X") = Marks("O"))
               /\ (current_player = "O") <=> (Marks("X") = Marks("O") + 1))

\* O is to move in a game in progress, X having one mark more
C35_Witness ==
    /\ MoveAccepted
    /\ status = "playing"
    /\ current_player = "O"
    /\ Marks("O") >= 2
    /\ Marks("X") = Marks("O") + 1

\* X has won the game and is still the current player, with one mark more
C35_WitnessWon ==
    /\ status = "X_wins"
    /\ current_player = "X"
    /\ Marks("X") = Marks("O") + 1

\* C36: an accepted make_move(row, col) changes exactly one cell of the board,
\* the target, from empty to the mover's mark, and leaves the other 728 as
\* they were; it changes no entry of blocks_3x3 other than the target's 3x3
\* block and no entry of blocks_9x9 other than the target's 9x9 block.
C36_AcceptedMoveFrame ==
    [][(last'.op = "make_move" /\ last'.ret)
         => /\ board[last'.row][last'.col] = ""
            /\ board'[last'.row][last'.col] = current_player
            /\ \A r \in Idx27, c \in Idx27 :
                   <<r, c>> # <<last'.row, last'.col>>
                     => board'[r][c] = board[r][c]
            /\ \A i \in Idx9, j \in Idx9 :
                   <<i, j>> # <<last'.row \div 3, last'.col \div 3>>
                     => blocks_3x3'[i][j] = blocks_3x3[i][j]
            /\ \A R \in Idx3, C \in Idx3 :
                   <<R, C>> # <<last'.row \div 9, last'.col \div 9>>
                     => blocks_9x9'[R][C] = blocks_9x9[R][C]]_vars

\* a move has changed its cell, its 3x3 block's winner and its 9x9 block's
\* winner, on a board where other blocks of both sizes are won
C36_Witness ==
    /\ MoveAccepted
    /\ blocks_3x3[last.row \div 3][last.col \div 3] = board[last.row][last.col]
    /\ blocks_9x9[last.row \div 9][last.col \div 9] = board[last.row][last.col]
    /\ \E R \in Idx3, C \in Idx3 :
           /\ <<R, C>> # <<last.row \div 9, last.col \div 9>>
           /\ blocks_9x9[R][C] # ""

\* a move that has changed its cell only
C36_WitnessCellOnly ==
    /\ MoveAccepted
    /\ board[last.row][last.col] # ""
    /\ blocks_3x3[last.row \div 3][last.col \div 3] = ""
    /\ \E i \in Idx9, j \in Idx9 : blocks_3x3[i][j] # ""

====
